---- MODULE Spec2Model ----
(***************************************************************************)
(* A model of api/chat.py: the RefinedLuhyaRAGSystem record store, its     *)
(* degraded-mode loading chain, the scored term search with its ranking    *)
(* and deduplication, and the process_request handler.                    *)
(*                                                                         *)
(* Texts are TLA+ strings; a character is a string of length one.  The     *)
(* arrow, the bullet and the dash of the program's literal texts are       *)
(* written in ASCII ("->", "-", "-").                                      *)
(* Scores are exact fixed-point integers: similarity in hundredths,        *)
(* length_score and quality_score in tenths, the dialect and domain        *)
(* multipliers in tenths, so a final_score is an integer over 10^6.        *)
(***************************************************************************)
EXTENDS Integers, Sequences, FiniteSets, TLC

VARIABLES
    is_initialized,   \* self.is_initialized
    documents,        \* self.documents
    metadata,         \* self.metadata
    dialect_index,    \* self.dialect_index: insertion-ordered dict, as pairs
    domain_index,     \* self.domain_index:  insertion-ordered dict, as pairs
    call              \* the call that has just returned, with its arguments and
                      \* its outcome; [op |-> "none"] between two calls

vars == <<is_initialized, documents, metadata, dialect_index, domain_index, call>>

(***************************************************************************)
(* Bounds of the model.                                                    *)
(***************************************************************************)
MaxItems == 2        \* longest dataset served by the environment or the URL
MaxResultsArg == 2   \* largest max_results passed to a direct smart_search

(***************************************************************************)
(* Program constants.                                                      *)
(***************************************************************************)
MaxTextLen == 100        \* len(source_text) > 100 or len(target_text) > 100
ShortAvgLen == 20        \* avg_length <= 20
PhraseAvgLen == 50       \* avg_length <= 50
SentenceAvgLen == 100    \* avg_length <= 100
MinTermLen == 2          \* len(term) < 2
MinWordLen == 2          \* len(w) > 2
MinContainsLen == 3      \* len(term_lower) > 3
MaxKeyTerms == 2         \* words[:2]
RequestMaxResults == 10  \* smart_search(message, intent_data, 10)
MaxSources == 3          \* results[:3]

(***************************************************************************)
(* Strings.                                                                *)
(***************************************************************************)
Ch(s, i) == SubSeq(s, i, i)

UpperLetters == "ABCDEFGHIJKLMNOPQRSTUVWXYZ"
LowerLetters == "abcdefghijklmnopqrstuvwxyz"
Digits == "0123456789"

Chars(s) == {Ch(s, i) : i \in 1..Len(s)}
UpperChars == Chars(UpperLetters)
DigitChars == Chars(Digits)
LetterChars == Chars(LowerLetters \o UpperLetters)
WordChars == Chars(LowerLetters \o UpperLetters \o Digits \o "_")

Min(S) == CHOOSE x \in S : \A y \in S : x <= y
Last(S) == CHOOSE x \in S : \A y \in S : y <= x

InStr(c, s) == \E i \in 1..Len(s) : Ch(s, i) = c

LowerOf ==
    [c \in UpperChars |->
        Ch(LowerLetters, CHOOSE i \in 1..Len(UpperLetters) : Ch(UpperLetters, i) = c)]

\* str.lower() on one character
LowerCh(c) == IF c \in UpperChars THEN LowerOf[c] ELSE c

RECURSIVE lower(_)
\* str.lower()
lower(s) == IF Len(s) = 0 THEN "" ELSE LowerCh(Ch(s, 1)) \o lower(SubSeq(s, 2, Len(s)))

IsSpace(c) == c \in {" ", "\t", "\n", "\r"}

\* s from its first to its last position in keep
Trim(s, keep) == IF keep = {} THEN "" ELSE SubSeq(s, Min(keep), Last(keep))

\* str.strip(): drop the leading and the trailing whitespace
strip(s) == Trim(s, {i \in 1..Len(s) : ~IsSpace(Ch(s, i))})

\* `t in s` for strings
Contains(t, s) ==
    \E i \in 1..(Len(s) - Len(t) + 1) : SubSeq(s, i, i + Len(t) - 1) = t

\* the regex class \w
IsWordCh(c) == c \in WordChars

\* is the character at position i of s a word character (FALSE off either end)
WordAt(s, i) == i >= 1 /\ i <= Len(s) /\ IsWordCh(Ch(s, i))

\* WordAt for the positions 0..Len(s)+1 of s
WordFlags(s) == [i \in 0..(Len(s) + 1) |-> WordAt(s, i)]

\* t occurs in s between two \b, w being the word flags of s; the regex
\* assertion \b holds between positions i and i+1 when w[i] # w[i+1]
WordSearchIn(t, s, w) ==
    \E i \in 1..(Len(s) - Len(t) + 1) :
        /\ SubSeq(s, i, i + Len(t) - 1) = t
        /\ w[i - 1] # w[i]
        /\ w[i + Len(t) - 1] # w[i + Len(t)]

\* re.search(rf'\b{re.escape(t)}\b', s) finds a match
WordSearch(t, s) == WordSearchIn(t, s, WordFlags(s))

\* the end of the leftmost match of <[^>]+> that starts at i, or 0
TagEnd(s, i) ==
    IF /\ Ch(s, i) = "<"
       /\ i + 2 <= Len(s)
       /\ Ch(s, i + 1) # ">"
       /\ \E j \in (i + 2)..Len(s) : Ch(s, j) = ">"
    THEN Min({j \in (i + 2)..Len(s) : Ch(s, j) = ">"})
    ELSE 0

RECURSIVE StripTagsFrom(_, _)
StripTagsFrom(s, i) ==
    IF i > Len(s) THEN ""
    ELSE IF TagEnd(s, i) > 0 THEN StripTagsFrom(s, TagEnd(s, i) + 1)
    ELSE Ch(s, i) \o StripTagsFrom(s, i + 1)

\* re.sub(r'<[^>]+>', '', s)
StripTags(s) == StripTagsFrom(s, 1)

RECURSIVE Rep(_, _)
\* c * n
Rep(c, n) == IF n = 0 THEN "" ELSE c \o Rep(c, n - 1)

(***************************************************************************)
(* Insertion-ordered dicts, as sequences of [k, v] pairs.                  *)
(***************************************************************************)
DictHas(d, k) == \E i \in 1..Len(d) : d[i].k = k
DictGet(d, k) == d[CHOOSE i \in 1..Len(d) : d[i].k = k].v
DictKeys(d) == [i \in 1..Len(d) |-> d[i].k]

\* if k not in d: d[k] = []  ;  d[k].append(x)
DictAppend(d, k, x) ==
    IF DictHas(d, k)
    THEN [i \in 1..Len(d) |-> IF d[i].k = k THEN [k |-> k, v |-> Append(d[i].v, x)] ELSE d[i]]
    ELSE Append(d, [k |-> k, v |-> <<x>>])

(***************************************************************************)
(* Decoded JSON values.  A dict is a function from its keys; a list item   *)
(* that is not a dict is a JSON string.                                    *)
(***************************************************************************)
JDict(f) == [kind |-> "dict", fields |-> f]
JStr(s) == [kind |-> "str", fields |-> [value |-> s]]

Has(item, key) == key \in DOMAIN item.fields
\* item.get(key, default)
Get(item, key, default) == IF Has(item, key) THEN item.fields[key] ELSE default
\* not item.get(key)
Falsy(item, key) == ~Has(item, key) \/ item.fields[key] = ""

(***************************************************************************)
(* Scores.                                                                 *)
(***************************************************************************)
\* (len(source) + len(target)) / 2 <= n  is  len(source) + len(target) <= 2n
calculate_length_score(source, target) ==
    IF Len(source) + Len(target) <= 2 * ShortAvgLen THEN 10
    ELSE IF Len(source) + Len(target) <= 2 * PhraseAvgLen THEN 8
    ELSE IF Len(source) + Len(target) <= 2 * SentenceAvgLen THEN 5
    ELSE 1

PreferredDomains == {"dictionary", "translations", "greetings", "courtesy", "basic"}
ComplexPunctuation == {"\"", "(", ")", "[", "]", ";", ":"}

Max(a, b) == IF a >= b THEN a ELSE b

\* the score of the text source + target: 1.0, + 0.5 or - 0.3 by the domain,
\* + 0.2 without complex punctuation, - 0.2 with a digit; at least 0.1
QualityOf(text, domain) ==
    Max(1, 10
           + (IF domain \in PreferredDomains THEN 5 ELSE IF domain = "bible" THEN -3 ELSE 0)
           + (IF \E c \in ComplexPunctuation : InStr(c, text) THEN 0 ELSE 2)
           - (IF \E i \in 1..Len(text) : Ch(text, i) \in DigitChars THEN 2 ELSE 0))

calculate_quality_score(source, target, domain) == QualityOf(source \o target, domain)

(***************************************************************************)
(* The record store.                                                       *)
(***************************************************************************)
Sys == [is_initialized |-> is_initialized,
        documents |-> documents,
        metadata |-> metadata,
        dialect_index |-> dialect_index,
        domain_index |-> domain_index]

\* RefinedLuhyaRAGSystem.__init__
NewSys == [is_initialized |-> FALSE,
           documents |-> <<>>,
           metadata |-> <<>>,
           dialect_index |-> <<>>,
           domain_index |-> <<>>]

HtmlTags == {"<en>", "<sw>", "<luy_"}

\* str(idx)
RECURSIVE IntStr(_)
IntStr(n) == IF n < 10 THEN Ch(Digits, n + 1) ELSE IntStr(n \div 10) \o Ch(Digits, (n % 10) + 1)

\* any(tag in target_text.lower() for tag in [...])
Tagged(target_text) == \E tag \in HtmlTags : Contains(tag, lower(target_text))

\* re.sub(r'<[^>]+>', '', target_text).strip()
CleanTarget(target_text) == strip(StripTags(target_text))

\* the metadata dict built for the item at enumerate index idx
MakeMetadata(item, idx, source_text, target_text, domain) ==
    [source_text |-> source_text,
     target_text |-> target_text,
     source_lang |-> Get(item, "source_lang", "en"),
     target_lang |-> Get(item, "target_lang", "luy"),
     dialect |-> Get(item, "dialect", "General"),
     domain |-> domain,
     id |-> "entry_" \o IntStr(idx),
     length_score |-> calculate_length_score(source_text, target_text),
     quality_score |-> calculate_quality_score(source_text, target_text, domain)]

\* the appends of the loop body; the arrow of the f-string is written in ASCII
StoreItem(st, m, idx) ==
    [st EXCEPT !.documents = Append(@, m.source_text \o " -> " \o m.target_text
                                       \o " (" \o m.dialect \o ")"),
               !.metadata = Append(@, m),
               !.dialect_index = DictAppend(@, m.dialect, idx),
               !.domain_index = DictAppend(@, m.domain, idx)]

\* the loop body from the domain on, for an item that is kept
Kept(st, item, idx, source_text, target_text) ==
    StoreItem(st, MakeMetadata(item, idx, source_text, target_text,
                               lower(Get(item, "domain", "general"))), idx)

\* the loop body after the tags have been removed from the target text
Cleaned(st, item, idx, source_text, target_text) ==
    IF Len(target_text) = 0 \/ Len(target_text) > MaxTextLen THEN st
    ELSE Kept(st, item, idx, source_text, target_text)

\* the loop body from the length test on, with the two stripped texts
Stripped(st, item, idx, source_text, target_text) ==
    IF Len(source_text) > MaxTextLen \/ Len(target_text) > MaxTextLen THEN st
    ELSE IF Tagged(target_text)
    THEN Cleaned(st, item, idx, source_text, CleanTarget(target_text))
    ELSE Kept(st, item, idx, source_text, target_text)

\* one pass of the loop body on a dict; `continue` leaves the store as it is
LoopBody(st, item, idx) ==
    IF Falsy(item, "source_text") \/ Falsy(item, "target_text") THEN st
    ELSE Stripped(st, item, idx, strip(item.fields["source_text"]),
                  strip(item.fields["target_text"]))

RECURSIVE ProcessItems(_, _, _)
\* for idx, item in enumerate(data): ... ; idx is the 0-based enumerate index.
\* item.get on an item that is not a dict raises: the loop is left with the
\* state as it then is.
ProcessItems(items, idx, st) ==
    IF idx >= Len(items) THEN [raised |-> FALSE, sys |-> st]
    ELSE IF items[idx + 1].kind # "dict" THEN [raised |-> TRUE, sys |-> st]
    ELSE ProcessItems(items, idx + 1, LoopBody(st, items[idx + 1], idx))

\* what `for ... in enumerate(data)` iterates over: the items of a list, the
\* keys of an object
IterItems(data) ==
    IF data.kind = "list" THEN data.items
    ELSE [i \in 1..Len(data.items) |-> JStr(data.items[i])]

\* the try block of process_dataset run on a store: the four collections are
\* cleared, then filled; enumerate(data) raises on a value that is no collection
Processed(data) ==
    IF data.kind \notin {"list", "object"}
    THEN [raised |-> TRUE, sys |-> NewSys]
    ELSE ProcessItems(IterItems(data), 0, NewSys)

\* process_dataset, given what its try block made of the data: [ret, sys].
\* is_initialized is set at the end of the try block only; every exception is
\* caught and reported as False
Finish(st, r) ==
    [ret |-> ~r.raised,
     sys |-> [r.sys EXCEPT !.is_initialized = IF r.raised THEN st.is_initialized ELSE TRUE]]

process_dataset(st, data) == Finish(st, Processed(data))

(***************************************************************************)
(* The three data sources.  A loader returns [ret, raised, sys]: its       *)
(* return value, whether an exception left it, and the store afterwards.   *)
(***************************************************************************)
JList(items) == [kind |-> "list", items |-> items]
JObject(keys) == [kind |-> "object", items |-> keys]
JNumber == [kind |-> "number", items |-> <<>>]

\* len(data) raises TypeError on a JSON number
LenRaises(data) == data.kind = "number"

\* a loader's `return self.process_dataset(data)`
Returned(r) == [raised |-> FALSE, ret |-> r.ret, sys |-> r.sys]

\* except Exception: return False
Caught(r) == IF r.raised THEN [raised |-> FALSE, ret |-> FALSE, sys |-> r.sys] ELSE r

\* the try block of load_dataset_from_env; env is what os.environ and the
\* decoding make of LUHYA_DATASET_B64
EnvTry(st, env) ==
    IF env.kind = "absent" THEN [raised |-> FALSE, ret |-> FALSE, sys |-> st]
    ELSE IF env.kind \in {"undecodable", "nonjson"} THEN [raised |-> TRUE, ret |-> FALSE, sys |-> st]
    ELSE IF LenRaises(env.data) THEN [raised |-> TRUE, ret |-> FALSE, sys |-> st]
    ELSE Returned(process_dataset(st, env.data))

\* load_dataset_from_env without its except clause
load_dataset_from_env_uncaught(st, env) == EnvTry(st, env)

load_dataset_from_env(st, env) == Caught(EnvTry(st, env))

\* the try block of load_dataset_from_url; url is what urlopen, read, decode
\* and json.loads make of the dataset URL within the timeout
UrlTry(st, url) ==
    IF url.kind \in {"urlerror", "timeout", "nonjson"} THEN [raised |-> TRUE, ret |-> FALSE, sys |-> st]
    ELSE IF LenRaises(url.data) THEN [raised |-> TRUE, ret |-> FALSE, sys |-> st]
    ELSE Returned(process_dataset(st, url.data))

load_dataset_from_url(st, url) == Caught(UrlTry(st, url))

Entry(s, t, dialect, domain) ==
    JDict([source_text |-> s, target_text |-> t, dialect |-> dialect, domain |-> domain])

fallback_data == JList(<<
    Entry("good morning", "bulamasawa", "Bukusu", "greetings"),
    Entry("good morning", "bushiangala", "Maragoli", "greetings"),
    Entry("good morning", "vushiere", "Tsotso", "greetings"),
    Entry("good morning", "bushere", "Luwanga", "greetings"),
    Entry("thank you", "nyasaye akurinde", "Bukusu", "courtesy"),
    Entry("thank you", "orio", "Luwanga", "courtesy"),
    Entry("thank you", "asante", "Maragoli", "courtesy"),
    Entry("hello", "mulembe", "General", "greetings"),
    Entry("how are you", "oli otia", "Bukusu", "greetings"),
    Entry("how are you", "uli wahi", "Maragoli", "greetings"),
    Entry("water", "machi", "General", "basic"),
    Entry("food", "shikulia", "General", "basic"),
    Entry("house", "ingu", "General", "basic") >>)

\* the fallback list never changes: its processing is computed once
ProcessedFallback == Processed(fallback_data)

load_fallback_data(st) == Returned(Finish(st, ProcessedFallback))

\* how one loader call ended, for the log of a call of initialize
Outcome(loader, r) ==
    [loader |-> loader,
     ret |-> IF r.raised THEN "Exception" ELSE IF r.ret THEN "True" ELSE "False"]

\* the chain with the URL tried although the environment load succeeded
ChainNoStop(st, env, url) ==
    LET e == load_dataset_from_env(st, env)
        u == load_dataset_from_url(e.sys, url)
        f == load_fallback_data(u.sys)
    IN  IF u.ret
        THEN [ret |-> "True", sys |-> u.sys,
              attempts |-> <<Outcome("env", e), Outcome("url", u)>>]
        ELSE [ret |-> Outcome("fallback", f).ret, sys |-> f.sys,
              attempts |-> <<Outcome("env", e), Outcome("url", u), Outcome("fallback", f)>>]

\* return self.load_fallback_data(), after the loads e and u
ChainFallback(e, u, f) ==
    [ret |-> Outcome("fallback", f).ret, sys |-> f.sys,
     attempts |-> <<Outcome("env", e), Outcome("url", u), Outcome("fallback", f)>>]

\* initialize from the outcome u of the URL load on
ChainUrl(e, u) ==
    IF u.raised \/ u.ret
    THEN [ret |-> Outcome("url", u).ret, sys |-> u.sys,
          attempts |-> <<Outcome("env", e), Outcome("url", u)>>]
    ELSE ChainFallback(e, u, load_fallback_data(u.sys))

\* initialize from the outcome e of the environment load on
ChainEnv(e, url) ==
    IF e.raised \/ e.ret
    THEN [ret |-> Outcome("env", e).ret, sys |-> e.sys, attempts |-> <<Outcome("env", e)>>]
    ELSE ChainUrl(e, load_dataset_from_url(e.sys, url))

\* the fallback chain of initialize, entered when is_initialized is False; an
\* exception that leaves a loader leaves initialize
Chain(st, env, url) == ChainEnv(load_dataset_from_env(st, env), url)

\* initialize without its is_initialized test
initialize_reloads(st, env, url) == Chain(st, env, url)

\* initialize: [ret, sys, attempts], attempts being the loaders it called, in
\* order, each with its outcome
initialize(st, env, url) ==
    IF st.is_initialized
    THEN [ret |-> "True", sys |-> st, attempts |-> <<>>]
    ELSE Chain(st, env, url)

(***************************************************************************)
(* Intent detection.  A match of a pattern at a start position is          *)
(* [ok, g1, g2]: whether it matches there, and the text of its two groups, *)
(* None for a group that took no part.  re.search takes the leftmost start *)
(* that matches, and there the first match in backtracking order.          *)
(***************************************************************************)
None == "None"

Quotes == {"\"", "'"}

\* the literal lit occurs in q at position p
StartsAt(q, p, lit) ==
    /\ p >= 1
    /\ p + Len(lit) - 1 <= Len(q)
    /\ SubSeq(q, p, p + Len(lit) - 1) = lit

\* the character classes [^"'], [^?], \w, [a-zA-Z] and \s
InClass(c, class) ==
    CASE class = "notquote" -> c \notin Quotes
      [] class = "notquestion" -> c # "?"
      [] class = "word" -> c \in WordChars
      [] class = "letter" -> c \in LetterChars
      [] class = "space" -> IsSpace(c)

\* the position before the first of the positions stop, the end of q if none
RunStop(q, stop) == IF stop = {} THEN Len(q) ELSE Min(stop) - 1

\* the last position of the longest run of characters of the class that
\* starts at p; p - 1 when the run is empty
RunEnd(q, p, class) == RunStop(q, {k \in p..Len(q) : ~InClass(Ch(q, k), class)})

NoMatch == [ok |-> FALSE, g1 |-> None, g2 |-> None]

\* the first match of a list of matches, NoMatch when there is none
FirstOk(ms) ==
    IF \A k \in 1..Len(ms) : ~ms[k].ok THEN NoMatch
    ELSE ms[Min({k \in 1..Len(ms) : ms[k].ok})]

\* the tail after the connector, from position c on, e being the end of the
\* run of word characters at c: `(?:(\w+) )?luhya`, the optional group first
TailFrom(q, c, e) ==
    IF e >= c /\ StartsAt(q, e + 1, " luhya")
    THEN [ok |-> TRUE, g1 |-> None, g2 |-> SubSeq(q, c, e)]
    ELSE IF StartsAt(q, c, "luhya") THEN [ok |-> TRUE, g1 |-> None, g2 |-> None]
    ELSE NoMatch

\* the tail `<connector>(?:(\w+) )?luhya` at position p
TailAt(q, p, connector) ==
    IF ~StartsAt(q, p, connector) THEN NoMatch
    ELSE TailFrom(q, p + Len(connector), RunEnd(q, p + Len(connector), "word"))

\* the match with first group g1 when the tail follows it
Captured(g1, tail) ==
    IF tail.ok THEN [ok |-> TRUE, g1 |-> g1, g2 |-> tail.g2] ELSE NoMatch

\* the quoted group opened at a, e being the end of the run of characters
\* that are no quote
QuotedRun(q, a, e, connector) ==
    IF e >= a + 1 /\ e + 1 <= Len(q)
    THEN Captured(SubSeq(q, a + 1, e), TailAt(q, e + 2, connector))
    ELSE NoMatch

\* `<prefix>["']([^"']+)["']<tail>` at start s: the greedy group runs to the
\* next quote
QuotedAt(q, s, prefix, connector) ==
    IF /\ StartsAt(q, s, prefix)
       /\ s + Len(prefix) <= Len(q)
       /\ Ch(q, s + Len(prefix)) \in Quotes
    THEN QuotedRun(q, s + Len(prefix), RunEnd(q, s + Len(prefix) + 1, "notquote"), connector)
    ELSE NoMatch

\* the lazy group from a on, ends being the ends the tail can follow
UnquotedEnd(q, a, ends, connector) ==
    IF ends = {} THEN NoMatch
    ELSE Captured(SubSeq(q, a, Min(ends)), TailAt(q, Min(ends) + 1, connector))

\* `<prefix>([^?]+?)<tail>` at start s: the lazy group is the shortest one
\* the tail can follow
UnquotedAt(q, s, prefix, connector) ==
    IF ~StartsAt(q, s, prefix) THEN NoMatch
    ELSE UnquotedEnd(q, s + Len(prefix),
                     {e \in (s + Len(prefix))..RunEnd(q, s + Len(prefix), "notquestion") :
                         TailAt(q, e + 1, connector).ok},
                     connector)

\* the lazy group from a on, ends being the ends the suffix can follow
LazyEnd(q, a, ends) ==
    IF ends = {} THEN NoMatch
    ELSE [ok |-> TRUE, g1 |-> SubSeq(q, a, Min(ends)), g2 |-> None]

\* `<prefix>([^?]+?)<suffix>` at start s
LazyAt(q, s, prefix, suffix) ==
    IF ~StartsAt(q, s, prefix) THEN NoMatch
    ELSE LazyEnd(q, s + Len(prefix),
                 {e \in (s + Len(prefix))..RunEnd(q, s + Len(prefix), "notquestion") :
                     StartsAt(q, e + 1, suffix)})

\* the greedy group from a to e
GreedyRun(q, a, e) ==
    IF e >= a THEN [ok |-> TRUE, g1 |-> SubSeq(q, a, e), g2 |-> None] ELSE NoMatch

\* `<prefix>(<class>+)` at start s: the greedy group takes the whole run
GreedyAt(q, s, prefix, class) ==
    IF ~StartsAt(q, s, prefix) THEN NoMatch
    ELSE GreedyRun(q, s + Len(prefix), RunEnd(q, s + Len(prefix), class))

Pat(form, prefix, arg) == [form |-> form, prefix |-> prefix, arg |-> arg]

translation_patterns == <<
    Pat("quoted", "how do you say ", " in "),
    Pat("quoted", "what is ", " in "),
    Pat("quoted", "how to say ", " in "),
    Pat("quoted", "say ", " in "),
    Pat("quoted", "translate ", " to "),
    Pat("quoted", "", " in "),
    Pat("unquoted", "how do you say ", " in "),
    Pat("unquoted", "what is ", " in "),
    Pat("unquoted", "how to say ", " in "),
    Pat("unquoted", "say ", " in "),
    Pat("unquoted", "translate ", " to ") >>

meaning_patterns == <<
    Pat("lazy", "what does ", " mean"),
    Pat("greedy", "meaning of ", "notquestion"),
    Pat("greedy", "define ", "notquestion"),
    Pat("greedy", "what is ", "letter") >>

MatchAt(q, s, pat) ==
    CASE pat.form = "quoted" -> QuotedAt(q, s, pat.prefix, pat.arg)
      [] pat.form = "unquoted" -> UnquotedAt(q, s, pat.prefix, pat.arg)
      [] pat.form = "lazy" -> LazyAt(q, s, pat.prefix, pat.arg)
      [] pat.form = "greedy" -> GreedyAt(q, s, pat.prefix, pat.arg)

\* re.search(pattern, q): the match at the leftmost start that has one
Search(q, pat) == FirstOk([s \in 1..Len(q) |-> MatchAt(q, s, pat)])

\* the loop without its break: the last pattern that matches wins
LastMatch(q, patterns) ==
    FirstOk([k \in 1..Len(patterns) |-> Search(q, patterns[Len(patterns) + 1 - k])])

\* for pattern in patterns: match = re.search(pattern, q); if match: ...; break
FirstMatch(q, patterns) == FirstOk([k \in 1..Len(patterns) |-> Search(q, patterns[k])])

Cap(k, prefix) == [k |-> k, v |-> prefix]

\* dialect_patterns, in the order of the dict
dialect_patterns == <<
    Cap("bukusu", "Bukusu"), Cap("maragoli", "Maragoli"), Cap("luwanga", "Luwanga"),
    Cap("tsotso", "Tsotso"), Cap("marachi", "Marachi") >>

\* the value of the first key of d that occurs in q, None when none does
FirstIn(q, d, hits) == IF hits = {} THEN None ELSE d[Min(hits)].v

\* for pattern, dialect in dialect_patterns.items(): if pattern in q: ...; break
MentionedDialect(q) ==
    FirstIn(q, dialect_patterns,
            {k \in 1..Len(dialect_patterns) : Contains(dialect_patterns[k].k, q)})

stop_words == {"what", "is", "the", "how", "do", "you", "say", "in", "luhya", "mean", "means"}

RECURSIVE Split(_, _)
\* str.split(): the maximal runs of characters that are not whitespace, from
\* position p on
Split(q, p) ==
    IF p > Len(q) THEN <<>>
    ELSE IF IsSpace(Ch(q, p)) THEN Split(q, p + 1)
    ELSE <<SubSeq(q, p, RunStop(q, {k \in p..Len(q) : IsSpace(Ch(q, k))}))>>
         \o Split(q, RunStop(q, {k \in p..Len(q) : IsSpace(Ch(q, k))}) + 1)

Take(seq, n) == SubSeq(seq, 1, IF Len(seq) < n THEN Len(seq) ELSE n)

\* words[:2] of the words that are no stop word and longer than 2 characters
Keywords(q) ==
    Take(SelectSeq(Split(q, 1), LAMBDA w : w \notin stop_words /\ Len(w) > MinWordLen),
         MaxKeyTerms)

\* the second group of the match left unread
MatchDialectMentioned(g2, mentioned) == mentioned

\* the dialect of a translation match: that of its second group when it
\* names one, else the one mentioned in the query
MatchDialect(g2, mentioned) ==
    IF g2 # None /\ DictHas(dialect_patterns, lower(g2))
    THEN DictGet(dialect_patterns, lower(g2))
    ELSE mentioned

\* the pattern loops with the translation patterns left out
IntentMeaningOnly(query_lower, mentioned, tm, mm) ==
    IF mm.ok
    THEN [primary_intent |-> "dictionary_lookup",
          key_terms |-> <<strip(mm.g1)>>,
          target_dialect |-> mentioned,
          query_type |-> "meaning"]
    ELSE [primary_intent |-> "general",
          key_terms |-> Keywords(query_lower),
          target_dialect |-> mentioned,
          query_type |-> "translation"]

\* the pattern loops with the meaning patterns left out
IntentTranslationOnly(query_lower, mentioned, tm, mm) ==
    IF tm.ok
    THEN [primary_intent |-> "translation_request",
          key_terms |-> <<strip(tm.g1)>>,
          target_dialect |-> MatchDialect(tm.g2, mentioned),
          query_type |-> "translation"]
    ELSE [primary_intent |-> "general",
          key_terms |-> Keywords(query_lower),
          target_dialect |-> mentioned,
          query_type |-> "translation"]

\* detect_query_intent from the pattern loops on: tm is the first match of
\* the translation patterns, mm that of the meaning patterns, which is looked
\* at only when no translation pattern has matched
Intent(query_lower, mentioned, tm, mm) ==
    IF tm.ok
    THEN [primary_intent |-> "translation_request",
          key_terms |-> <<strip(tm.g1)>>,
          target_dialect |-> MatchDialect(tm.g2, mentioned),
          query_type |-> "translation"]
    ELSE IF mm.ok
    THEN [primary_intent |-> "dictionary_lookup",
          key_terms |-> <<strip(mm.g1)>>,
          target_dialect |-> mentioned,
          query_type |-> "meaning"]
    ELSE [primary_intent |-> "general",
          key_terms |-> Keywords(query_lower),
          target_dialect |-> mentioned,
          query_type |-> "translation"]

\* detect_query_intent on query.lower().strip()
Detect(query_lower) ==
    Intent(query_lower, MentionedDialect(query_lower),
           FirstMatch(query_lower, translation_patterns),
           FirstMatch(query_lower, meaning_patterns))

detect_query_intent(query) == Detect(strip(lower(query)))

(***************************************************************************)
(* Search.  An intent record is [primary_intent, key_terms, target_dialect,*)
(* query_type]; None stands for Python's None.                             *)
(***************************************************************************)

BoostedDomains == {"dictionary", "translations", "greetings", "courtesy"}

\* the chain with the target text compared whatever the query type
SimilarityAnyType(term_lower, source, target, query_type) ==
    IF term_lower = source THEN 100
    ELSE IF term_lower = target THEN 98
    ELSE IF WordSearch(term_lower, source) THEN 85
    ELSE IF WordSearch(term_lower, target) THEN 82
    ELSE IF Len(term_lower) > MinContainsLen /\ Contains(term_lower, source) THEN 70
    ELSE IF Len(term_lower) > MinContainsLen /\ Contains(term_lower, target) THEN 67
    ELSE 0

\* the if/elif chain of the base similarity, in hundredths; 0 is no match
Similarity(term_lower, source, target, query_type) ==
    IF term_lower = source THEN 100
    ELSE IF term_lower = target /\ query_type = "meaning" THEN 98
    ELSE IF WordSearch(term_lower, source) THEN 85
    ELSE IF WordSearch(term_lower, target) /\ query_type = "meaning" THEN 82
    ELSE IF Len(term_lower) > MinContainsLen /\ Contains(term_lower, source) THEN 70
    ELSE IF Len(term_lower) > MinContainsLen /\ Contains(term_lower, target)
            /\ query_type = "meaning" THEN 67
    ELSE 0

MatchType(similarity) ==
    CASE similarity = 100 -> "exact_source"
      [] similarity = 98 -> "exact_target"
      [] similarity = 85 -> "word_boundary_source"
      [] similarity = 82 -> "word_boundary_target"
      [] similarity = 70 -> "contains_source"
      [] similarity = 67 -> "contains_target"
      [] OTHER -> ""

\* the dialect boost left out
NoDialectBoost(target_dialect, dialect) == 10

\* if target_dialect and dialect == target_dialect: final_score *= 1.3
DialectBoost(target_dialect, dialect) ==
    IF target_dialect # None /\ target_dialect # "" /\ dialect = target_dialect THEN 13 ELSE 10

\* final_score *= 1.2 for the preferred domains, *= 0.6 for 'bible'
DomainFactor(domain) ==
    IF domain \in BoostedDomains THEN 12
    ELSE IF domain = "bible" THEN 6
    ELSE 10

\* the test written as similarity >= 0
MatchedOrZero(similarity) == similarity >= 0

\* if similarity > 0
Matched(similarity) == similarity > 0

\* the result dict of an entry m with its similarity and its dialect boost
Boosted(similarity, m, target_dialect, boost) ==
    [metadata |-> m,
     similarity |-> similarity,
     final_score |-> similarity * m.length_score * m.quality_score
                        * boost * DomainFactor(m.domain),
     match_type |-> IF boost = 13
                    THEN MatchType(similarity) \o "_dialect_boost_" \o target_dialect
                    ELSE MatchType(similarity)]

\* the result dict appended for one term and one entry with similarity > 0
ResultOf(similarity, m, target_dialect) ==
    Boosted(similarity, m, target_dialect, DialectBoost(target_dialect, m.dialect))

\* what one entry adds to `results` for one term
Scored(similarity, m, target_dialect) ==
    IF Matched(similarity) THEN <<ResultOf(similarity, m, target_dialect)>> ELSE <<>>

RECURSIVE TermResults(_, _, _, _)
\* for i, metadata in enumerate(self.metadata): ...  from position i on
TermResults(term_lower, meta, i, intent_data) ==
    IF i > Len(meta) THEN <<>>
    ELSE Scored(Similarity(term_lower, lower(meta[i].source_text),
                           lower(meta[i].target_text), intent_data.query_type),
                meta[i], intent_data.target_dialect)
         \o TermResults(term_lower, meta, i + 1, intent_data)

RECURSIVE Candidates(_, _, _)
\* for term in key_terms: ...  from the k-th key term on: the list `results`
\* before it is sorted
Candidates(st, intent_data, k) ==
    IF k > Len(intent_data.key_terms) THEN <<>>
    ELSE (IF Len(intent_data.key_terms[k]) < MinTermLen THEN <<>>
          ELSE TermResults(strip(lower(intent_data.key_terms[k])), st.metadata, 1, intent_data))
         \o Candidates(st, intent_data, k + 1)

\* a descending sort that puts the later of two equal scores first, as
\* sorted(results, key=...) followed by reverse() does
SortByScoreReversed(results) ==
    LET n == Len(results)
        Before(i, j) == \/ results[i].final_score > results[j].final_score
                        \/ results[i].final_score = results[j].final_score /\ i > j
        Rank(i) == Cardinality({j \in 1..n : Before(j, i)}) + 1
    IN  [r \in 1..n |-> results[CHOOSE i \in 1..n : Rank(i) = r]]

\* results.sort(key=lambda x: x['final_score'], reverse=True): a stable sort,
\* equal scores keep their order
SortByScore(results) ==
    LET n == Len(results)
        Before(i, j) == \/ results[i].final_score > results[j].final_score
                        \/ results[i].final_score = results[j].final_score /\ i < j
        Rank(i) == Cardinality({j \in 1..n : Before(j, i)}) + 1
    IN  [r \in 1..n |-> results[CHOOSE i \in 1..n : Rank(i) = r]]

\* deduplication by entry id instead of by text and dialect
DedupKeyById(meta) == <<meta.id>>

\* key = (source_text.lower(), target_text.lower(), dialect)
DedupKey(meta) == <<lower(meta.source_text), lower(meta.target_text), meta.dialect>>

RECURSIVE Unique(_, _, _, _, _)
\* the walk over the sorted results from position i on, with the set `seen`
\* and the list `unique_results` so far; the length is tested after an append
Unique(sorted, i, seen, unique_results, max_results) ==
    IF i > Len(sorted) THEN unique_results
    ELSE IF DedupKey(sorted[i].metadata) \in seen
    THEN Unique(sorted, i + 1, seen, unique_results, max_results)
    ELSE IF Len(unique_results) + 1 >= max_results
    THEN Append(unique_results, sorted[i])
    ELSE Unique(sorted, i + 1, seen \cup {DedupKey(sorted[i].metadata)},
                Append(unique_results, sorted[i]), max_results)

\* the deduplication loop of smart_search
unique(sorted, max_results) == Unique(sorted, 1, {}, <<>>, max_results)

smart_search(st, intent_data, max_results) ==
    IF ~st.is_initialized THEN <<>>
    ELSE unique(SortByScore(Candidates(st, intent_data, 1)), max_results)

(***************************************************************************)
(* Responses.                                                              *)
(***************************************************************************)
greeting_starters == {"", "Here's what I found: ", "In Luhya, "}
meaning_starters == {"", "Let me explain: ", "Here's the meaning: "}

MaxShown == 8            \* results[:8]
MaxTranslations == 3     \* [:3]
MaxPerDialect == 2       \* translations[:2]
MaxUses == 3             \* main_meanings[:3]
MaxDialectsShown == 4    \* list(dialect_groups.items())[:4]
MaxOtherDialects == 2    \* list(dialect_meanings.items())[1:3]
MaxDialectsListed == 5   \* list(self.dialect_index.keys())[:5]
MaxMeaningLen == 80      \* len(source) > 80 or len(target) > 80
MaxExplanationLen == 50  \* len(text) < 50

RECURSIVE Join(_, _)
\* sep.join(seq)
Join(seq, sep) ==
    IF Len(seq) = 0 THEN ""
    ELSE IF Len(seq) = 1 THEN seq[1]
    ELSE seq[1] \o sep \o Join(Tail(seq), sep)

\* seq with x appended unless it occurs in it
AppendNew(seq, x) == IF \E i \in 1..Len(seq) : seq[i] = x THEN seq ELSE Append(seq, x)

RECURSIVE Dedupe(_)
\* list(dict.fromkeys(seq)): the first occurrences, in order
Dedupe(seq) ==
    IF Len(seq) = 0 THEN <<>>
    ELSE AppendNew(Dedupe(SubSeq(seq, 1, Len(seq) - 1)), seq[Len(seq)])

\* the values of a dict, each with its duplicates removed
DedupeValues(d) == [i \in 1..Len(d) |-> [k |-> d[i].k, v |-> Dedupe(d[i].v)]]

RECURSIVE GroupTargets(_, _)
\* dialect_groups of format_translation_response, over results[1..n]
GroupTargets(results, n) ==
    IF n = 0 THEN <<>>
    ELSE DictAppend(GroupTargets(results, n - 1),
                    results[n].metadata.dialect, results[n].metadata.target_text)

pronunciation_tips == <<
    Cap("good morning", "\n\n*Tip: In most Luhya dialects, morning greetings are used until around 10 AM.*"),
    Cap("thank you", "\n\n*Note: Expressing gratitude is very important in Luhya culture, and the phrases often invoke blessings.*"),
    Cap("hello", "\n\n*Cultural note: Luhya greetings often inquire about one's wellbeing and peace.*"),
    Cap("water", "\n\n*This is an essential word to know, as asking for water is common courtesy when visiting.*") >>

\* d[k] when k is a key of d, else ""
Lookup(d, k) == IF DictHas(d, k) THEN DictGet(d, k) ELSE ""

\* the part appended by add_pronunciation_tip, "" when there is none
add_pronunciation_tip(word) == Lookup(pronunciation_tips, word)

RECURSIVE DialectLines(_, _)
\* the bullet lines of the first n dialect groups
DialectLines(groups, n) ==
    IF n = 0 THEN ""
    ELSE DialectLines(groups, n - 1)
         \o "- **" \o groups[n].k \o ":** *"
         \o Join(Take(groups[n].v, MaxPerDialect), ", ") \o "*\n"

\* the other translations of a dialect, in parentheses after the first
Others(translations, lead) ==
    IF Len(translations) > 1
    THEN " (" \o lead \o " *" \o Join(Tail(translations), ", ") \o "*)"
    ELSE ""

\* the sentence for the requested dialect
InDialect(query_term, target_dialect, translations) ==
    "In " \o target_dialect \o " Luhya, *" \o query_term \o "* is **"
    \o translations[1] \o "**" \o Others(translations, "you might also hear") \o "."

\* the sentence for the only dialect found
OneDialect(query_term, dialect, translations) ==
    (IF dialect = "General"
     THEN "In Luhya, *" \o query_term \o "* is **" \o translations[1] \o "**"
     ELSE "In Luhya (specifically " \o dialect \o "), *" \o query_term
          \o "* is **" \o translations[1] \o "**")
    \o Others(translations, "variations include") \o "."

\* the list of the dialects found, at most four of them
ManyDialects(query_term, dialect_groups) ==
    "In Luhya, *" \o query_term \o "* is **" \o dialect_groups[1].v[1]
    \o "**, though the exact word varies by dialect:\n\n"
    \o DialectLines(dialect_groups,
                    IF Len(dialect_groups) < MaxDialectsShown
                    THEN Len(dialect_groups) ELSE MaxDialectsShown)
    \o (IF Len(dialect_groups) > MaxDialectsShown
        THEN "\n*...and " \o IntStr(Len(dialect_groups) - MaxDialectsShown)
             \o " more dialect(s)*"
        ELSE "")

\* the response parts of format_translation_response before the tip
TranslationBody(query_term, dialect_groups, target_dialect) ==
    IF target_dialect # None /\ target_dialect # "" /\ DictHas(dialect_groups, target_dialect)
    THEN InDialect(query_term, target_dialect,
                   Take(DictGet(dialect_groups, target_dialect), MaxTranslations))
    ELSE IF Len(dialect_groups) = 1
    THEN OneDialect(query_term, dialect_groups[1].k, Take(dialect_groups[1].v, MaxTranslations))
    ELSE ManyDialects(query_term, dialect_groups)

\* dialect_groups, with the duplicates removed: of results[:8]
DialectGroups(top) == DedupeValues(GroupTargets(top, Len(top)))

format_translation_response(query_term, results, target_dialect) ==
    strip(TranslationBody(query_term, DialectGroups(Take(results, MaxShown)), target_dialect)
          \o add_pronunciation_tip(lower(query_term)))

\* the quoted group opened at p, e being the end of the run of characters
\* that are no quote
LitRun(text, p, e) ==
    IF e >= p + 1 /\ e + 1 <= Len(text)
    THEN [ok |-> TRUE, g1 |-> SubSeq(text, p + 1, e), g2 |-> None]
    ELSE NoMatch

\* the quote at p, after lit. and the whitespace
LitQuote(text, p) ==
    IF p <= Len(text) /\ Ch(text, p) \in Quotes
    THEN LitRun(text, p, RunEnd(text, p + 1, "notquote"))
    ELSE NoMatch

\* re.search(r"lit\.\s*['\"]([^'\"]+)['\"]", text) at start s
LitAt(text, s) ==
    IF StartsAt(text, s, "lit.")
    THEN LitQuote(text, RunEnd(text, s + 4, "space") + 1)
    ELSE NoMatch

\* re.search(r'[.!?]{2,}', text) finds a match
RepeatedStops(text) ==
    \E i \in 1..(Len(text) - 1) : Ch(text, i) \in {".", "!", "?"} /\ Ch(text, i + 1) \in {".", "!", "?"}

\* return f"literally '{match.group(1)}'" when the pattern has matched
Literally(match) == IF match.ok THEN "literally '" \o match.g1 \o "'" ELSE ""

\* extract_explanation on text.lower().strip()
Explanation(text) ==
    IF Contains("greeting", text) /\ Contains("peace", text) THEN "greeting meaning 'peace'"
    ELSE IF Contains("lit.", text)
    THEN Literally(FirstOk([s \in 1..Len(text) |-> LitAt(text, s)]))
    ELSE IF Len(text) < MaxExplanationLen /\ ~RepeatedStops(text) THEN text
    ELSE ""

extract_explanation(source) == Explanation(strip(lower(source)))

cultural_contexts == <<
    Cap("mulembe", "\n\nCulturally, *mulembe* is more than just a word-it's a way of greeting someone while wishing them peace and well-being."),
    Cap("asante", "\n\nThis word shows the influence of Swahili on some Luhya dialects."),
    Cap("nyasaye", "\n\nThis is the traditional Luhya name for God, widely used across different dialects."),
    Cap("mama", "\n\nUsed respectfully to address mothers or elder women in the community."),
    Cap("papa", "\n\nA respectful term for fathers or elder men.") >>

\* the part appended by add_cultural_context, "" when there is none
add_cultural_context(word) == Lookup(cultural_contexts, word)

\* if k not in d: d[k] = []
DictTouch(d, k) == IF DictHas(d, k) THEN d ELSE Append(d, [k |-> k, v |-> <<>>])

\* one pass of the loop of format_meaning_response, for a result of the
\* dialect with the stripped texts source and target, on the groups g so far
Grouped(g, term_lower, dialect, source, target) ==
    IF Len(source) > MaxMeaningLen \/ Len(target) > MaxMeaningLen THEN g
    ELSE IF term_lower = lower(target)
    THEN [g EXCEPT !.dialect_meanings =
              DictAppend(DictTouch(@, dialect), dialect,
                         [meaning |-> source, luhya_word |-> target,
                          explanation |-> extract_explanation(source)])]
    ELSE IF term_lower = lower(source)
    THEN [g EXCEPT !.dialect_meanings = DictTouch(@, dialect),
                   !.translations = DictAppend(@, dialect, target)]
    ELSE [g EXCEPT !.dialect_meanings = DictTouch(@, dialect)]

RECURSIVE MeaningGroups(_, _, _)
\* the loop of format_meaning_response over results[1..n]:
\* [dialect_meanings, translations]
MeaningGroups(query_term, results, n) ==
    IF n = 0 THEN [dialect_meanings |-> <<>>, translations |-> <<>>]
    ELSE Grouped(MeaningGroups(query_term, results, n - 1), lower(query_term),
                 results[n].metadata.dialect,
                 strip(results[n].metadata.source_text),
                 strip(results[n].metadata.target_text))

RECURSIVE VariationLines(_, _)
VariationLines(translations, n) ==
    IF n = 0 THEN ""
    ELSE VariationLines(translations, n - 1)
         \o "- **" \o translations[n].k \o ":** *"
         \o Join(Dedupe(translations[n].v), ", ") \o "*\n"

RECURSIVE UseLines(_, _)
UseLines(meanings, n) ==
    IF n = 0 THEN ""
    ELSE UseLines(meanings, n - 1)
         \o (IF meanings[n].explanation # ""
             THEN "- *" \o meanings[n].explanation \o "*\n" ELSE "")

RECURSIVE OtherDialectLines(_, _, _)
\* the lines for dialect_meanings[from..to]
OtherDialectLines(groups, from, to) ==
    IF from > to THEN ""
    ELSE (IF Len(groups[from].v) > 0
          THEN "- **" \o groups[from].k \o ":** similar usage\n" ELSE "")
         \o OtherDialectLines(groups, from + 1, to)

\* the response parts when the query term is an English source text
TranslatesTo(query_term, translations) ==
    "In Luhya, *" \o query_term \o "* translates to **" \o translations[1].v[1] \o "**"
    \o (IF Len(translations) > 1
        THEN " (primarily in the " \o translations[1].k \o " dialect)" ELSE "")
    \o ".\n\n"
    \o (IF Len(translations) > 1
        THEN "**Variations across dialects:**\n"
             \o VariationLines(translations, Len(translations))
        ELSE "")

\* what the term is said to mean, by the explanation of its first meaning
MeansWhat(explanation_lower, meaning) ==
    IF Contains("greeting", explanation_lower) THEN "is a common greeting. "
    ELSE IF Contains("peace", explanation_lower) THEN "means **\"peace.\"** "
    ELSE "means **\"" \o meaning \o ".\"** "

\* the response parts when the query term is a Luhya target text
Means(query_term, dialect_meanings, main_meanings) ==
    "In Luhya"
    \o (IF Len(dialect_meanings) = 1
        THEN " (specifically the " \o dialect_meanings[1].k \o " dialect)" ELSE "")
    \o ", *" \o query_term \o "* "
    \o MeansWhat(lower(main_meanings[1].explanation), main_meanings[1].meaning)
    \o (IF Len(main_meanings) > 1
        THEN "\n\n**Different uses:**\n"
             \o UseLines(main_meanings,
                         IF Len(main_meanings) < MaxUses THEN Len(main_meanings) ELSE MaxUses)
        ELSE "")
    \o (IF Len(dialect_meanings) > 1
        THEN "\n**In other dialects:**\n"
             \o OtherDialectLines(dialect_meanings, 2,
                                  IF Len(dialect_meanings) < 1 + MaxOtherDialects
                                  THEN Len(dialect_meanings) ELSE 1 + MaxOtherDialects)
        ELSE "")
    \o add_cultural_context(lower(query_term))

\* the response parts of format_meaning_response for the groups g
MeaningBody(query_term, g) ==
    IF Len(g.translations) > 0 THEN TranslatesTo(query_term, g.translations)
    ELSE IF Len(g.dialect_meanings) > 0 /\ Len(g.dialect_meanings[1].v) > 0
    THEN Means(query_term, g.dialect_meanings, g.dialect_meanings[1].v)
    ELSE ""

\* the groups of results[:8]
MeaningGroupsOf(query_term, top) == MeaningGroups(query_term, top, Len(top))

format_meaning_response(query_term, results, target_dialect) ==
    IF Len(results) = 0
    THEN "I couldn't find the meaning of *" \o query_term \o "* in my Luhya database."
    ELSE strip(MeaningBody(query_term, MeaningGroupsOf(query_term, Take(results, MaxShown))))

\* the no-results text for the query term, listing the store's dialects
NoResults(query_term, available_dialects) ==
    "I couldn't find **\"" \o query_term \o "\"** in my Luhya database.\n\n"
    \o "**Try asking about:**\n"
    \o "- Common greetings: \"good morning\", \"hello\", \"how are you\"\n"
    \o "- Basic courtesy: \"thank you\", \"please\", \"excuse me\"  \n"
    \o "- Essential words: \"water\", \"food\", \"house\"\n\n"
    \o "**Available dialects:** " \o Join(available_dialects, ", ") \o "\n\n"
    \o "Try simpler terms or check your spelling!"

generate_no_results_response(st, intent_data) ==
    NoResults(IF Len(intent_data.key_terms) > 0 THEN intent_data.key_terms[1] ELSE "that",
              Take(DictKeys(st.dialect_index), MaxDialectsListed))

\* the starters random.choice draws from
Starters(query_type) == IF query_type = "meaning" THEN meaning_starters ELSE greeting_starters

\* the content of a response to a non-empty result list, after its starter,
\* for the query term
ContentFor(query_term, results, intent_data) ==
    IF intent_data.query_type = "translation"
    THEN format_translation_response(query_term, results, intent_data.target_dialect)
    ELSE format_meaning_response(query_term, results, intent_data.target_dialect)

Content(results, intent_data) ==
    ContentFor(IF Len(intent_data.key_terms) > 0 THEN intent_data.key_terms[1] ELSE "",
               results, intent_data)

\* generate_response with a starter that stands in for the content
generate_response_starter_only(st, results, intent_data, starter) ==
    IF Len(results) = 0
    THEN generate_no_results_response(st, intent_data)
    ELSE IF starter = "" THEN Content(results, intent_data) ELSE starter

\* generate_response (the second definition, which replaces the first);
\* starter is what random.choice returns, drawn only when there are results
generate_response(st, results, intent_data, starter) ==
    IF Len(results) = 0
    THEN generate_no_results_response(st, intent_data)
    ELSE starter \o Content(results, intent_data)

\* round(final_score, 2), in hundredths, half to even on the exact value
Confidence(final_score) ==
    IF \/ final_score % 10000 > 5000
       \/ final_score % 10000 = 5000 /\ (final_score \div 10000) % 2 = 1
    THEN (final_score \div 10000) + 1
    ELSE final_score \div 10000

\* the sources built from results[:3]
SourcesOf(top) ==
    [i \in 1..Len(top) |->
        [text |-> top[i].metadata.source_text \o " -> " \o top[i].metadata.target_text,
         dialect |-> top[i].metadata.dialect,
         domain |-> top[i].metadata.domain,
         confidence |-> Confidence(top[i].final_score)]]

\* the sources list of process_request
Sources(results) == SourcesOf(Take(results, MaxSources))

\* a return of process_request that answers no query
Reply(request_data, statusCode, error, constructed, st) ==
    [call |-> [op |-> "process_request", request_data |-> request_data,
               statusCode |-> statusCode, error |-> error, answered |-> FALSE],
     constructed |-> constructed,
     rag_system |-> st]

\* the return of process_request for the results of the search
Answered(request_data, st, message, intent_data, results, starter) ==
    [call |-> [op |-> "process_request", request_data |-> request_data,
               statusCode |-> 200, error |-> None, answered |-> TRUE,
               query |-> message, intent_data |-> intent_data,
               max_results |-> RequestMaxResults, results |-> results,
               starter |-> starter,
               response |-> generate_response(st, results, intent_data, starter),
               sources |-> Sources(results),
               intent |-> intent_data.primary_intent,
               query_terms |-> intent_data.key_terms,
               target_dialect |-> intent_data.target_dialect,
               total_results |-> Len(results)],
     constructed |-> TRUE,
     rag_system |-> st]

\* process_request from the search on
Searched(request_data, st, message, intent_data, starter) ==
    Answered(request_data, st, message, intent_data,
             smart_search(st, intent_data, RequestMaxResults), starter)

\* process_request once the new system is there: init is what
\* rag_system.initialize() has done on it
Served(request_data, init, message, starter) ==
    IF init.ret = "Exception"
    THEN Reply(request_data, 500, "Internal server error", TRUE, init.sys)
    ELSE IF init.ret = "False"
    THEN Reply(request_data, 500, "System initialization failed", TRUE, init.sys)
    ELSE Searched(request_data, init.sys, message, detect_query_intent(message), starter)

\* body_data.get('message', '').strip()
Message(body) == strip(IF body.has_message THEN body.message ELSE "")

\* process_request; a body that is no JSON object has no get: the exception
\* is caught at the end.  starter is what random.choice returns
process_request(request_data, init, starter) ==
    IF request_data.httpMethod = "OPTIONS" THEN Reply(request_data, 200, None, FALSE, NewSys)
    ELSE IF request_data.httpMethod # "POST"
    THEN Reply(request_data, 405, "Method not allowed", FALSE, NewSys)
    ELSE IF request_data.body.kind = "nonjson"
    THEN Reply(request_data, 400, "Invalid JSON", FALSE, NewSys)
    ELSE IF request_data.body.kind # "object"
    THEN Reply(request_data, 500, "Internal server error", FALSE, NewSys)
    ELSE IF Message(request_data.body) = ""
    THEN Reply(request_data, 400, "Message required", FALSE, NewSys)
    ELSE Served(request_data, init, Message(request_data.body), starter)

(***************************************************************************)
(* What the environment may serve.                                         *)
(***************************************************************************)
Greeting == JDict([source_text |-> "hello", target_text |-> "mulembe", domain |-> "greetings"])
BibleHello == JDict([source_text |-> "Hello", target_text |-> "mulembe 1",
                     dialect |-> "Maragoli", domain |-> "Bible"])
TaggedPhrase == JDict([source_text |-> " hello there ", target_text |-> "<en>Mulembe",
                       dialect |-> "Bukusu", domain |-> "Greetings"])
BlankSource == JDict([source_text |-> "  ", target_text |-> "x"])
NoTarget == JDict([source_text |-> "hello"])
EmptyTarget == JDict([source_text |-> "hello", target_text |-> ""])
LongTarget == JDict([source_text |-> "hello", target_text |-> Rep("a", MaxTextLen + 1)])
TagOnly == JDict([source_text |-> "hello", target_text |-> " <sw> "])
NotADict == JStr("oops")

ItemPool == {Greeting, BibleHello, TaggedPhrase, BlankSource,
             NoTarget, EmptyTarget, LongTarget, TagOnly, NotADict}
UrlItemPool == {Greeting, TaggedPhrase, NoTarget, NotADict}

SeqsUpTo(S, n) == UNION {[1..k -> S] : k \in 0..n}

Blob(kind) == [kind |-> kind, data |-> JNumber]
Json(data) == [kind |-> "json", data |-> data]

EnvInputs ==
    {Blob("absent"), Blob("undecodable"), Blob("nonjson"), Json(JNumber),
     Json(JObject(<<>>)), Json(JObject(<<"error">>))}
    \cup {Json(JList(items)) : items \in SeqsUpTo(ItemPool, MaxItems)}

UrlInputs ==
    {Blob("urlerror"), Blob("timeout"), Blob("nonjson"), Json(JNumber)}
    \cup {Json(JList(items)) : items \in SeqsUpTo(UrlItemPool, MaxItems)}

\* the environment values whose load returns False, so that the URL is read
EnvFailing == {env \in EnvInputs : ~load_dataset_from_env(NewSys, env).ret}

\* the URL is read only when the chain comes to it
UrlRead(initialized, env) ==
    IF initialized \/ env \notin EnvFailing THEN {Blob("urlerror")} ELSE UrlInputs

Idle == [op |-> "none"]

\* the intent records of direct calls of smart_search
KeyTermLists ==
    {<<>>, <<"hello">>, <<"Mulembe ">>, <<"hell">>, <<"zzzxqq123">>, <<"h", "  ">>,
     <<"good morning">>, <<"good", "morning">>, <<"hello", "there">>, <<"hello", "hello">>}

\* the messages that reach the query path
Queries ==
    {"how do you say thank you in luhya", "what does mulembe mean", "zzzxqq123",
     "good morning", "What is 'Hello' in Bukusu Luhya?", "what does good mean",
     "what is hello", "is", "hello there"}

DirectIntents ==
    [primary_intent : {"general"},
     key_terms : KeyTermLists,
     target_dialect : {None, "Bukusu"},
     query_type : {"translation", "meaning"}]

\* the queries of direct calls of detect_query_intent: an opening, a term and
\* an ending, and the messages of the requests
IntentQueries ==
    Queries \cup
    {head \o term \o tail :
        head \in {"", "how do you say ", "What is ", "what does ", "translate ",
                  "say ", "meaning of ", "define "},
        term \in {"thank you", "'hello'", "mulembe", "the water", "my house"},
        tail \in {"", " in luhya", " in Bukusu Luhya?", " mean", " to luhya language",
                  " in maragoli luhya or bukusu"}}

\* the systems the direct calls of the query methods are made on: the
\* fallback store, two stores loaded from a dataset, one of them with an entry
\* given twice, and a system not yet loaded
QueryStores ==
    {load_fallback_data(NewSys).sys,
     process_dataset(NewSys, JList(<<BibleHello, TaggedPhrase>>)).sys,
     process_dataset(NewSys, JList(<<Greeting, TaggedPhrase, Greeting>>)).sys,
     NewSys}

\* the request bodies: not JSON, a JSON array, an object with or without a
\* message
Body(kind, has_message, message) ==
    [kind |-> kind, has_message |-> has_message, message |-> message]

Bodies ==
    {Body("nonjson", FALSE, ""), Body("array", FALSE, ""), Body("object", FALSE, "")}
    \cup {Body("object", TRUE, m) : m \in {"", "  ", " hello there "} \cup Queries}

Requests == [httpMethod : {"OPTIONS", "GET", "POST"}, body : Bodies]

\* a request that returns before the system is built
Early(request_data) ==
    \/ request_data.httpMethod # "POST"
    \/ request_data.body.kind # "object"
    \/ Message(request_data.body) = ""

\* what initialize() makes of a new system, over what the environment serves
Loaded ==
    UNION {{initialize(NewSys, env, url) : url \in UrlRead(FALSE, env)} : env \in EnvInputs}

\* a system that is not built
Unbuilt == [ret |-> "False", sys |-> NewSys, attempts |-> <<>>]

\* the outcomes of initialize() a request may meet
InitsFor(request_data) == IF Early(request_data) THEN {Unbuilt} ELSE Loaded

\* the starters random.choice may return: it is called when there are results
StartersOf(intent_data, results) ==
    IF Len(results) = 0 THEN {""} ELSE Starters(intent_data.query_type)

\* the starters generate_response may draw for the intent on the system
StartersIn(st, intent_data) ==
    StartersOf(intent_data, smart_search(st, intent_data, RequestMaxResults))

\* the starters generate_response may draw for the request
StartersFor(request_data, init) ==
    IF Early(request_data) \/ init.ret # "True" THEN {""}
    ELSE StartersIn(init.sys, detect_query_intent(Message(request_data.body)))

\* every outcome of a request; a request reads nothing of the state
RequestOutcomes ==
    UNION {UNION {{process_request(request_data, init, starter) :
                       starter \in StartersFor(request_data, init)} :
                  init \in InitsFor(request_data)} :
           request_data \in Requests}

(***************************************************************************)
(* Actions.                                                                *)
(***************************************************************************)
Init ==
    /\ is_initialized = NewSys.is_initialized
    /\ documents = NewSys.documents
    /\ metadata = NewSys.metadata
    /\ dialect_index = NewSys.dialect_index
    /\ domain_index = NewSys.domain_index
    /\ call = Idle

SetSys(st) ==
    /\ is_initialized' = st.is_initialized
    /\ documents' = st.documents
    /\ metadata' = st.metadata
    /\ dialect_index' = st.dialect_index
    /\ domain_index' = st.domain_index

\* rag_system = RefinedLuhyaRAGSystem()
Construct ==
    /\ call = Idle
    /\ Sys # NewSys
    /\ SetSys(NewSys)
    /\ UNCHANGED call

\* the return of initialize() to its caller
Initialized(was_initialized, r) ==
    /\ SetSys(r.sys)
    /\ call' = [op |-> "initialize", was_initialized |-> was_initialized,
                ret |-> r.ret, attempts |-> r.attempts]

\* rag_system.initialize().  The environment variable is read only when the
\* chain is entered, the URL only when the environment load has failed.
Initialize ==
    /\ call = Idle
    /\ \E env \in IF is_initialized THEN {Blob("absent")} ELSE EnvInputs :
       \E url \in UrlRead(is_initialized, env) :
           Initialized(is_initialized, initialize(Sys, env, url))

\* smart_search with the sort done on the store instead of the result list
SmartSearchReversing ==
    /\ call = Idle
    /\ \E intent_data \in DirectIntents, max_results \in 0..MaxResultsArg :
           call' = [op |-> "smart_search", intent_data |-> intent_data,
                    max_results |-> max_results,
                    results |-> smart_search(Sys, intent_data, max_results)]
    /\ metadata' = [i \in 1..Len(metadata) |-> metadata[Len(metadata) + 1 - i]]
    /\ UNCHANGED <<is_initialized, documents, dialect_index, domain_index>>

\* rag_system.smart_search(query, intent_data, max_results)
SmartSearch ==
    /\ call = Idle
    /\ \E intent_data \in DirectIntents, max_results \in 0..MaxResultsArg :
           call' = [op |-> "smart_search", intent_data |-> intent_data,
                    max_results |-> max_results,
                    results |-> smart_search(Sys, intent_data, max_results)]
    /\ UNCHANGED <<is_initialized, documents, metadata, dialect_index, domain_index>>

\* process_request(request_data).  The handler builds its own system, which
\* becomes the system of the state; the requests that return before line 710
\* build none.
ProcessRequest ==
    /\ call = Idle
    /\ \E o \in RequestOutcomes :
           /\ call' = o.call
           /\ IF o.constructed
              THEN SetSys(o.rag_system)
              ELSE UNCHANGED <<is_initialized, documents, metadata, dialect_index, domain_index>>

\* the caller takes the outcome of the call; nothing of it is kept
Return ==
    /\ call # Idle
    /\ call' = Idle
    /\ UNCHANGED <<is_initialized, documents, metadata, dialect_index, domain_index>>

Next == Construct \/ Initialize \/ SmartSearch \/ ProcessRequest \/ Return

Spec == Init /\ [][Next]_vars

(***************************************************************************)
(* The query methods, called one at a time on a system.                    *)
(***************************************************************************)
\* every outcome of detect_query_intent; the method reads nothing of the system
IntentOutcomes ==
    {[op |-> "detect_query_intent", query |-> query,
      intent_data |-> detect_query_intent(query)] : query \in IntentQueries}

\* rag_system.detect_query_intent(query)
DetectQueryIntent ==
    /\ call = Idle
    /\ \E o \in IntentOutcomes : call' = o
    /\ UNCHANGED <<is_initialized, documents, metadata, dialect_index, domain_index>>

\* rag_system.generate_response(query, results, intent_data), on the results
\* of smart_search for the intent of the query; starter is what random.choice
\* returns
GenerateResponse ==
    /\ call = Idle
    /\ \E o \in {i \in IntentOutcomes : i.query \in Queries} :
       \E results \in {smart_search(Sys, o.intent_data, RequestMaxResults)} :
       \E starter \in StartersOf(o.intent_data, results) :
           call' = [op |-> "generate_response", query |-> o.query,
                    intent_data |-> o.intent_data, results |-> results,
                    starter |-> starter,
                    response |-> generate_response(Sys, results, o.intent_data, starter)]
    /\ UNCHANGED <<is_initialized, documents, metadata, dialect_index, domain_index>>

QueryInit ==
    /\ \E st \in QueryStores :
           /\ is_initialized = st.is_initialized
           /\ documents = st.documents
           /\ metadata = st.metadata
           /\ dialect_index = st.dialect_index
           /\ domain_index = st.domain_index
    /\ call = Idle

QueryNext == DetectQueryIntent \/ SmartSearch \/ GenerateResponse \/ Return

QuerySpec == QueryInit /\ [][QueryNext]_vars

(***************************************************************************)
(* Properties.                                                             *)
(***************************************************************************)
\* a call that returned a ranked result list
HasResults ==
    \/ call.op = "smart_search"
    \/ call.op = "process_request" /\ call.answered

\* the (source_text, target_text, dialect) identity of an entry, the texts
\* compared without case
Identity(m) == <<lower(m.source_text), lower(m.target_text), m.dialect>>

\* how often x occurs in the sequence s
Count(s, x) == Cardinality({i \in 1..Len(s) : s[i] = x})

\* the ids of a result list, in order
Ids(results) == [i \in 1..Len(results) |-> results[i].metadata.id]

\* C1: the list returned by smart_search has at most max_results elements,
\* for every max_results >= 0, 0 included.
C1_AtMostMaxResults ==
    HasResults => Len(call.results) <= call.max_results

\* C2: with one key term, an output entry whose source_text equals the
\* lower-cased term is ranked before every output entry that only contains the
\* term as a substring of its source_text.
C2_ExactOutranksSubstring ==
    (HasResults /\ Len(call.intent_data.key_terms) = 1) =>
        LET t == strip(lower(call.intent_data.key_terms[1]))
            out == call.results
            src(i) == lower(out[i].metadata.source_text)
        IN  \A i, j \in 1..Len(out) :
                (src(j) = t /\ src(i) # t /\ Contains(t, src(i))) => j < i

\* C3: every stored entry has a non-empty, trimmed source_text and
\* target_text of at most 100 characters each.
C3_StoredTextsValid ==
    \A p \in 1..Len(metadata) :
        LET m == metadata[p]
        IN  /\ Len(m.source_text) >= 1 /\ Len(m.source_text) <= MaxTextLen
            /\ Len(m.target_text) >= 1 /\ Len(m.target_text) <= MaxTextLen
            /\ strip(m.source_text) = m.source_text
            /\ strip(m.target_text) = m.target_text

\* an index lists exactly the store positions (from 0) of the entries carrying
\* its keys, the key of an entry being its field `field`
IndexExact(index, field) ==
    /\ \A p \in 1..Len(metadata) :
           /\ DictHas(index, metadata[p][field])
           /\ Count(DictGet(index, metadata[p][field]), p - 1) = 1
    /\ \A e \in 1..Len(index) : \A x \in 1..Len(index[e].v) :
           /\ index[e].v[x] >= 0 /\ index[e].v[x] < Len(metadata)
           /\ metadata[index[e].v[x] + 1][field] = index[e].k

\* C4: for every stored entry at position p of metadata, dialect_index and
\* domain_index list p exactly once under the entry's key, and list no position
\* that is not the position of a stored entry with that key.
C4_IndexesListPositions ==
    IndexExact(dialect_index, "dialect") /\ IndexExact(domain_index, "domain")

\* C5: once initialize() has succeeded the system is initialized, and a call
\* of initialize() on an initialized system returns True, calls no loader and
\* leaves the store unchanged.
C5_InitializeIdempotent ==
    /\ [](call.op = "initialize" /\ call.ret = "True" => is_initialized)
    /\ [][(is_initialized /\ call'.op = "initialize") =>
            (call'.ret = "True" /\ call'.attempts = <<>> /\ Sys' = Sys)]_vars

C5_Witness ==
    /\ call.op = "initialize"
    /\ call.was_initialized
    /\ call.ret = "True"
    /\ Len(metadata) > 0

SourceOrder == <<"env", "url", "fallback">>

\* C6: initialize() calls the loaders in the order environment, URL, fallback,
\* each only after every earlier one has failed, and none after a success.
C6_StrictOrder ==
    call.op = "initialize" =>
        LET a == call.attempts
        IN  /\ Len(a) <= Len(SourceOrder)
            /\ \A i \in 1..Len(a) : a[i].loader = SourceOrder[i]
            /\ \A i \in 1..(Len(a) - 1) : a[i].ret # "True"
            /\ (~call.was_initialized) => Len(a) >= 1
            /\ (Len(a) >= 1 /\ Len(a) < Len(SourceOrder)) => a[Len(a)].ret = "True"

C6_Witness ==
    /\ call.op = "initialize"
    /\ Len(call.attempts) = 2
    /\ call.attempts[1].ret = "False"
    /\ call.attempts[2].ret = "True"

\* C7: no exception leaves initialize(); a failed environment or URL load is
\* followed by the next source, and initialize() returns False only when the
\* fallback load has failed too.
C7_FailuresStayInChain ==
    call.op = "initialize" =>
        LET a == call.attempts
        IN  /\ call.ret # "Exception"
            /\ \A i \in 1..Len(a) : a[i].ret # "Exception"
            /\ \A i \in 1..Len(a) :
                   (a[i].ret = "False" /\ a[i].loader # "fallback") =>
                       (Len(a) > i /\ a[i + 1].loader = SourceOrder[i + 1])
            /\ call.ret = "False" =>
                   (Len(a) = Len(SourceOrder) /\ a[Len(a)] = [loader |-> "fallback", ret |-> "False"])

C7_Witness ==
    /\ call.op = "initialize"
    /\ Len(call.attempts) = 3
    /\ call.attempts[1].ret = "False"
    /\ call.attempts[2].ret = "False"
    /\ call.ret = "True"
    /\ Len(metadata) > 0

\* C8 as stated: an entry produced as a candidate more than once has exactly
\* one occurrence of its id in the output, and no two output results share an
\* identity.
C8_ExactlyOnce ==
    (HasResults /\ call.max_results >= 1) =>
        LET out == call.results
            cand == Ids(Candidates(Sys, call.intent_data, 1))
        IN  /\ \A c \in 1..Len(cand) :
                   Count(cand, cand[c]) > 1 => Count(Ids(out), cand[c]) = 1
            /\ \A i, j \in 1..Len(out) :
                   i # j => Identity(out[i].metadata) # Identity(out[j].metadata)

\* C8, amended: no id and no identity occurs twice in the output; and when
\* the output is shorter than max_results, every candidate's identity is
\* carried by exactly one output result.
C8_AtMostOnce ==
    HasResults =>
        LET out == call.results
            cand == Candidates(Sys, call.intent_data, 1)
        IN  /\ \A i, j \in 1..Len(out) :
                   i # j => /\ out[i].metadata.id # out[j].metadata.id
                            /\ Identity(out[i].metadata) # Identity(out[j].metadata)
            /\ \A c \in 1..Len(cand) : Count(Ids(out), cand[c].metadata.id) <= 1
            /\ Len(out) < call.max_results =>
                   \A c \in 1..Len(cand) :
                       Cardinality({i \in 1..Len(out) :
                           Identity(out[i].metadata) = Identity(cand[c].metadata)}) = 1

C8_Witness ==
    /\ HasResults
    /\ Len(call.results) < call.max_results
    /\ LET cand == Ids(Candidates(Sys, call.intent_data, 1))
       IN  \E c \in 1..Len(cand) :
               Count(cand, cand[c]) > 1 /\ Count(Ids(call.results), cand[c]) = 1

\* a and b score alike but for the dialect, a's being the requested one
BoostedPair(a, b, target_dialect) ==
    /\ target_dialect # None
    /\ a.metadata.dialect = target_dialect
    /\ b.metadata.dialect # target_dialect
    /\ a.similarity = b.similarity
    /\ a.metadata.length_score = b.metadata.length_score
    /\ a.metadata.quality_score = b.metadata.quality_score
    /\ a.metadata.domain = b.metadata.domain

\* C9: of two matched entries alike in similarity, length_score, quality_score
\* and domain, the one in the requested dialect has the strictly higher
\* final_score and is ranked before the other.
C9_DialectBoost ==
    HasResults =>
        LET out == call.results
            cand == Candidates(Sys, call.intent_data, 1)
            td == call.intent_data.target_dialect
        IN  /\ \A a, b \in 1..Len(cand) :
                   BoostedPair(cand[a], cand[b], td) =>
                       cand[a].final_score > cand[b].final_score
            /\ \A i, j \in 1..Len(out) :
                   BoostedPair(out[i], out[j], td) => i < j
            /\ \A a \in 1..Len(cand), j \in 1..Len(out) :
                   BoostedPair(cand[a], out[j], td) =>
                       \E i \in 1..(j - 1) :
                           Identity(out[i].metadata) = Identity(cand[a].metadata)

C9_Witness ==
    /\ HasResults
    /\ \E i, j \in 1..Len(call.results) :
           /\ BoostedPair(call.results[i], call.results[j], call.intent_data.target_dialect)
           /\ i < j
           /\ call.results[i].final_score > call.results[j].final_score
\* the term, lower-cased and trimmed, matches the entry m by none of the
\* tests of smart_search
TermMisses(term, m, query_type) ==
    LET t == strip(lower(term))
        Hits(text) == \/ t = text
                      \/ WordSearch(t, text)
                      \/ Len(t) > MinContainsLen /\ Contains(t, text)
    IN  /\ ~Hits(lower(m.source_text))
        /\ query_type = "meaning" => ~Hits(lower(m.target_text))

\* no stored entry matches any key term that is searched for
NoEntryMatches(intent_data) ==
    \A k \in 1..Len(intent_data.key_terms) : \A p \in 1..Len(metadata) :
        Len(intent_data.key_terms[k]) >= MinTermLen =>
            TermMisses(intent_data.key_terms[k], metadata[p], intent_data.query_type)

\* a request with a message, served by a system that initialize() has loaded
QueryServed ==
    /\ call.op = "process_request"
    /\ ~Early(call.request_data)
    /\ is_initialized

\* C10: a query none of whose key terms matches a stored entry is answered
\* without an error, by the non-empty no-results text and an empty sources list.
C10_NoResultsAnswer ==
    (/\ QueryServed
     /\ NoEntryMatches(detect_query_intent(strip(call.request_data.body.message)))) =>
        /\ call.answered
        /\ call.statusCode = 200
        /\ call.error = None
        /\ call.results = <<>>
        /\ call.total_results = 0
        /\ call.sources = <<>>
        /\ call.response = generate_no_results_response(Sys, call.intent_data)
        /\ Len(call.response) > 0

C10_Witness ==
    /\ call.op = "process_request"
    /\ call.answered
    /\ call.statusCode = 200
    /\ call.query = "zzzxqq123"
    /\ Len(metadata) > 0
    /\ NoEntryMatches(call.intent_data)
    /\ call.sources = <<>>
    /\ Contains("I couldn't find **\"zzzxqq123\"**", call.response)
\* a call of detect_query_intent that has returned
Detected == call.op = "detect_query_intent"

\* C11: detect_query_intent on "how do you say thank you in luhya" returns
\* primary_intent translation_request and the one key term "thank you".
C11_ThankYouIntent ==
    (Detected /\ call.query = "how do you say thank you in luhya") =>
        /\ call.intent_data.primary_intent = "translation_request"
        /\ call.intent_data.key_terms = <<"thank you">>

C11_Witness ==
    /\ Detected
    /\ call.query = "how do you say thank you in luhya"
    /\ Len(call.intent_data.key_terms) = 1

\* C12: detect_query_intent on "what does mulembe mean" returns primary_intent
\* dictionary_lookup and the one key term "mulembe"; no translation pattern
\* matches the query and the first meaning pattern captures the term.
C12_MulembeIntent ==
    (Detected /\ call.query = "what does mulembe mean") =>
        /\ call.intent_data.primary_intent = "dictionary_lookup"
        /\ call.intent_data.key_terms = <<"mulembe">>
        /\ \A k \in 1..Len(translation_patterns) :
               ~Search(strip(lower(call.query)), translation_patterns[k]).ok
        /\ Search(strip(lower(call.query)), meaning_patterns[1]).ok
        /\ Search(strip(lower(call.query)), meaning_patterns[1]).g1 = "mulembe"

C12_Witness ==
    /\ Detected
    /\ call.query = "what does mulembe mean"
    /\ call.intent_data.query_type = "meaning"
\* the calls of the methods that answer a query
QueryOps == {"detect_query_intent", "smart_search", "generate_response"}

\* C13: detect_query_intent, smart_search and generate_response leave
\* is_initialized, documents, metadata, dialect_index and domain_index as they
\* are, so after any sequence of queries the store is the one the first query
\* met, and the intent record and the ranked results of a query are those the
\* query has on that store.
C13_QueriesStateless ==
    /\ [][call'.op \in QueryOps => Sys' = Sys]_vars
    /\ [][Sys' = Sys]_vars
    /\ [](Sys \in QueryStores)
    /\ [](call.op = "detect_query_intent" =>
             call.intent_data = detect_query_intent(call.query))
    /\ [](call.op = "smart_search" =>
             call.results = smart_search(Sys, call.intent_data, call.max_results))
    /\ [](call.op = "generate_response" =>
             /\ call.intent_data = detect_query_intent(call.query)
             /\ call.results = smart_search(Sys, call.intent_data, RequestMaxResults))

C13_Witness ==
    /\ call.op = "generate_response"
    /\ is_initialized
    /\ Len(metadata) > 0
    /\ Len(call.results) > 0
\* the positions in the priority list of the dialect names that occur in q
NamesIn(q) == {k \in 1..Len(dialect_patterns) : Contains(dialect_patterns[k].k, q)}

\* C14: the target_dialect returned by detect_query_intent is the dialect of
\* the first name of the priority list (bukusu, maragoli, luwanga, tsotso,
\* marachi) that occurs in the lower-cased query, and is absent when none occurs.
C14_FirstDialectInPriority ==
    Detected =>
        LET hits == NamesIn(lower(call.query))
        IN  IF hits = {}
            THEN call.intent_data.target_dialect = None
            ELSE call.intent_data.target_dialect = dialect_patterns[Min(hits)].v
\* the dialect named between the connector and "luhya" by the first matching
\* translation pattern, None when there is none or the word is no dialect name
NamedDialect(tm) ==
    IF tm.ok /\ tm.g2 # None /\ DictHas(dialect_patterns, lower(tm.g2))
    THEN DictGet(dialect_patterns, lower(tm.g2))
    ELSE None

\* C14, amended: the target_dialect is the dialect the first matching
\* translation pattern names before "luhya", when it names one; otherwise it
\* is the dialect of the first name of the priority list that occurs in the
\* lower-cased query, and is absent when none occurs.
C14_NamedThenPriority ==
    Detected =>
        LET q == strip(lower(call.query))
            named == NamedDialect(FirstMatch(q, translation_patterns))
            hits == NamesIn(q)
        IN  call.intent_data.target_dialect =
                IF named # None THEN named
                ELSE IF hits = {} THEN None
                ELSE dialect_patterns[Min(hits)].v

C14_Witness ==
    /\ Detected
    /\ Cardinality(NamesIn(lower(call.query))) = 2
    /\ call.intent_data.target_dialect = "Maragoli"
    /\ dialect_patterns[Min(NamesIn(lower(call.query)))].v = "Bukusu"
\* the positions of the patterns of the list that match q
MatchingIn(q, patterns) == {k \in 1..Len(patterns) : Search(q, patterns[k]).ok}

\* the one key term captured by the first of the patterns at positions ks
FirstCapture(q, patterns, ks) == <<strip(Search(q, patterns[Min(ks)]).g1)>>

\* C15: when a translation pattern matches, primary_intent is
\* translation_request and the key term is the capture of the first matching
\* translation pattern; the meaning patterns decide only when no translation
\* pattern matches, again by the first that matches; primary_intent is general
\* exactly when no pattern of either list matches.
C15_FirstMatchWins ==
    Detected =>
        LET q == strip(lower(call.query))
            tms == MatchingIn(q, translation_patterns)
            mms == MatchingIn(q, meaning_patterns)
            it == call.intent_data
        IN  /\ tms # {} =>
                   /\ it.primary_intent = "translation_request"
                   /\ it.key_terms = FirstCapture(q, translation_patterns, tms)
            /\ (tms = {} /\ mms # {}) =>
                   /\ it.primary_intent = "dictionary_lookup"
                   /\ it.key_terms = FirstCapture(q, meaning_patterns, mms)
            /\ (it.primary_intent = "general") <=> (tms = {} /\ mms = {})

C15_Witness ==
    /\ Detected
    /\ MatchingIn(strip(lower(call.query)), translation_patterns) # {}
    /\ MatchingIn(strip(lower(call.query)), meaning_patterns) # {}
    /\ call.intent_data.primary_intent = "translation_request"
    /\ call.intent_data.key_terms = <<"mulembe">>
\* the leading articles and possessives, and the trailing qualifier phrases
Articles == {"the", "a", "an", "my", "your"}
Qualifiers == {"in luhya", "language"}

\* the term begins with the word w
BeginsWith(term, w) == term = w \/ StartsAt(term, 1, w \o " ")

\* the term ends with the phrase w
EndsWith(term, w) == term = w \/ StartsAt(term, Len(term) - Len(w), " " \o w)

\* C16: when a translation or meaning pattern matches, key_terms holds exactly
\* one term, which begins with no article or possessive and ends with no
\* qualifier phrase.
C16_KeyTermStripped ==
    (Detected /\ call.intent_data.primary_intent # "general") =>
        /\ Len(call.intent_data.key_terms) = 1
        /\ \A w \in Articles : ~BeginsWith(call.intent_data.key_terms[1], w)
        /\ \A w \in Qualifiers : ~EndsWith(call.intent_data.key_terms[1], w)
\* a direct call of smart_search with one key term that is searched for, on a
\* loaded store
OneTermSearch ==
    /\ call.op = "smart_search"
    /\ is_initialized
    /\ Len(call.intent_data.key_terms) = 1
    /\ Len(call.intent_data.key_terms[1]) >= MinTermLen

\* the similarities of the candidates that are the entry m
SimilaritiesOf(cand, m) == {cand[c].similarity : c \in {x \in 1..Len(cand) : cand[x].metadata = m}}

\* the entry's target text equals the term, its source text does not
TargetIs(t, m) == lower(m.source_text) # t /\ lower(m.target_text) = t

\* the entry's target text holds the term as a whole word, and neither text
\* equals the term nor does the source text hold it as a whole word
TargetHasWord(t, m) ==
    /\ lower(m.source_text) # t
    /\ lower(m.target_text) # t
    /\ ~WordSearch(t, lower(m.source_text))
    /\ WordSearch(t, lower(m.target_text))

\* the entry is a candidate once, as an exact match of its target text or as a
\* whole-word match of it: below the exact-source similarity 1.0 and above
\* the whole-word similarity 0.85; below 0.85 and above the substring 0.7
TargetMatchesScored(t, cand, m) ==
    /\ TargetIs(t, m) =>
           \E x \in SimilaritiesOf(cand, m) : x < 100 /\ x > 85
    /\ TargetHasWord(t, m) =>
           \E x \in SimilaritiesOf(cand, m) : x < 85 /\ x > 70

\* C17 as stated: whatever the query type, an entry whose target_text equals
\* the term is a match with a similarity just below the exact-source one and
\* above every whole-word match, and an entry whose target_text holds the term
\* as a whole word is a match with a similarity above every substring match.
C17_TargetMatchesAnyType ==
    OneTermSearch =>
        \A p \in 1..Len(metadata) :
            TargetMatchesScored(strip(lower(call.intent_data.key_terms[1])),
                                Candidates(Sys, call.intent_data, 1), metadata[p])

\* C17, amended: the target_text is compared for the query type meaning
\* only; for the query type translation every candidate is a match of its
\* source_text.
C17_TargetMatchesForMeaning ==
    OneTermSearch =>
        /\ call.intent_data.query_type = "meaning" =>
               \A p \in 1..Len(metadata) :
                   TargetMatchesScored(strip(lower(call.intent_data.key_terms[1])),
                                       Candidates(Sys, call.intent_data, 1), metadata[p])
        /\ call.intent_data.query_type = "translation" =>
               \A p \in 1..Len(metadata) :
                   SimilaritiesOf(Candidates(Sys, call.intent_data, 1), metadata[p])
                       \subseteq {100, 85, 70}

C17_Witness ==
    /\ OneTermSearch
    /\ call.intent_data.query_type = "meaning"
    /\ \E p, q \in 1..Len(metadata) :
           /\ TargetIs(strip(lower(call.intent_data.key_terms[1])), metadata[p])
           /\ TargetHasWord(strip(lower(call.intent_data.key_terms[1])), metadata[q])
    /\ \E i, j \in 1..Len(call.results) :
           call.results[i].similarity = 98 /\ call.results[j].similarity = 82
\* where the result r is first met among the candidates
FirstPos(cand, r) == Min({c \in 1..Len(cand) : cand[c] = r})

\* the candidate cand[c] comes before the candidate at position d in the
\* order of the ranking: by descending final_score, then by encounter
RankedBefore(cand, c, d) ==
    \/ cand[c].final_score > cand[d].final_score
    \/ cand[c].final_score = cand[d].final_score /\ c <= d

\* C18: the output is ordered by non-increasing final_score, results of
\* equal final_score keep the order in which the candidates were met (key
\* terms in order, then the store in order), and of the candidates of one
\* identity the output holds the first in that order, the highest-scoring one.
C18_RankedStableFirstKept ==
    HasResults =>
        LET out == call.results
            cand == Candidates(Sys, call.intent_data, 1)
        IN  /\ \A i \in 1..Len(out) : \E c \in 1..Len(cand) : cand[c] = out[i]
            /\ \A i, j \in 1..Len(out) :
                   i < j =>
                       /\ out[i].final_score >= out[j].final_score
                       /\ out[i].final_score = out[j].final_score =>
                              FirstPos(cand, out[i]) < FirstPos(cand, out[j])
            /\ \A i \in 1..Len(out) : \A c \in 1..Len(cand) :
                   Identity(cand[c].metadata) = Identity(out[i].metadata) =>
                       /\ cand[c].final_score <= out[i].final_score
                       /\ RankedBefore(cand, FirstPos(cand, out[i]), c)

C18_Witness ==
    /\ HasResults
    /\ \E i, j \in 1..Len(call.results) :
           /\ i < j
           /\ call.results[i].final_score = call.results[j].final_score
    /\ \E c \in 1..Len(Candidates(Sys, call.intent_data, 1)) :
           /\ Identity(Candidates(Sys, call.intent_data, 1)[c].metadata)
                  = Identity(call.results[1].metadata)
           /\ c > FirstPos(Candidates(Sys, call.intent_data, 1), call.results[1])

\* generate_response has answered a query that found something
Generated == call.op = "generate_response" /\ Len(call.results) > 0

\* the response without the starter drawn for it
Shown == SubSeq(call.response, Len(call.starter) + 1, Len(call.response))

\* C19: when smart_search returns at least one result for a
\* translation_request or a dictionary_lookup query, the response of
\* generate_response without its starter is non-empty and shows the source or
\* the target text of at least one returned result.
C19_ResultsShown ==
    (/\ Generated
     /\ call.intent_data.primary_intent \in {"translation_request", "dictionary_lookup"}) =>
        /\ Shown # ""
        /\ \E i \in 1..Len(call.results) :
               \/ Contains(call.results[i].metadata.target_text, Shown)
               \/ Contains(call.results[i].metadata.source_text, Shown)

\* the POST request whose message is the query
PostOf(query) ==
    [httpMethod |-> "POST",
     body |-> CHOOSE body \in Bodies : body.kind = "object" /\ Message(body) = query]

\* what process_request returns for the query on the system, from the search
\* on, for each starter random.choice may return
Runs ==
    {Searched(PostOf(call.query), Sys, call.query,
              detect_query_intent(call.query), starter).call :
         starter \in Starters(call.intent_data.query_type)}

\* C20: the starter is drawn from a fixed set that holds the empty string,
\* every run on the same store and query returns its starter followed by the
\* same content, and the intent, the ranked results and the sources are the
\* same in every run.
C20_StarterCosmetic ==
    Generated =>
        /\ "" \in Starters(call.intent_data.query_type)
        /\ Starters(call.intent_data.query_type) \in {greeting_starters, meaning_starters}
        /\ call.starter \in Starters(call.intent_data.query_type)
        /\ call.response = call.starter \o Shown
        /\ \A run \in Runs :
               /\ run.response = run.starter \o Shown
               /\ run.intent_data = call.intent_data
               /\ run.intent = call.intent_data.primary_intent
               /\ run.results = call.results
               /\ run.sources = Sources(call.results)
        /\ \A a, b \in Runs :
               [a EXCEPT !.starter = "", !.response = ""]
                   = [b EXCEPT !.starter = "", !.response = ""]

C20_Witness ==
    /\ Generated
    /\ call.starter # ""
    /\ Shown # ""
    /\ \E run \in Runs : run.starter = "" /\ run.response = Shown
    /\ \E run \in Runs : run.starter \notin {"", call.starter}

\* the stores one source that succeeds makes of a new system
OneSourceStores ==
    {load_dataset_from_env(NewSys, env).sys :
         env \in {e \in EnvInputs : load_dataset_from_env(NewSys, e).ret}}
    \cup {load_dataset_from_url(NewSys, url).sys :
              url \in {u \in UrlInputs : load_dataset_from_url(NewSys, u).ret}}
    \cup {load_fallback_data(NewSys).sys}

\* the store after a successful initialize() is the store of one source alone:
\* nothing of a source that failed before it is left
StoreOfOneSource ==
    (call.op = "initialize" /\ call.ret = "True") => Sys \in OneSourceStores

\* C21: whenever initialize() has returned success the store is non-empty (a
\* source that yields no valid entry is no success and does not end the
\* chain) and holds the entries and index keys of the one source that
\* succeeded, none of a source that failed part-way.
C21_LoadedStoreNonEmpty ==
    (call.op = "initialize" /\ call.ret = "True") =>
        /\ Len(documents) > 0
        /\ Len(metadata) > 0
        /\ Sys \in OneSourceStores
====
